---- MODULE Spec2Model ----
(***************************************************************************)
(* A model of ResurrectJS (src/resurrect.ts): the identity-tagging         *)
(* traversal of stringify, the atom codec, and the two-pass resurrect.     *)
(*                                                                         *)
(* The caller's objects live in `heap`; the objects rebuilt by the last    *)
(* resurrect live in `rheap`.  A property list is a sequence of            *)
(* [k, v] records in JavaScript property order (all keys of the model are  *)
(* non-integer strings, so property order is insertion order).             *)
(* Date, RegExp and DOM-node atoms are left out of the value universe.     *)
(***************************************************************************)
EXTENDS Integers, Sequences, FiniteSets, TLC

\* ------------------------------------------------------------- bounds
NObj == 2
MaxSlots == 2
MaxCalls == 3

\* ------------------------------------------------------ reserved keys
Prefix == "#"
Refcode == "##"
Backrefcode == "#="
Protocode == "#+"
Origcode == "#&"
Buildcode == "#@"
Valuecode == "#_"

ReservedKeys == {Refcode, Backrefcode, Protocode, Origcode, Buildcode, Valuecode}

\* The i-th field of a caller's record is named DataKeys[i]; the i-th
\* element of a sequence is named IdxKeys[i].
DataKeys == <<"a", "b", "c", "d">>
IdxKeys == <<"0", "1", "2", "3">>

\* skip.test(k) of _replacerWrapper: does the key begin with the prefix?
HasPrefixNever(k) == FALSE
HasPrefix(k) == k \in ReservedKeys

\* ------------------------------------------------------------- values
V(t, n, s, c) == [t |-> t, n |-> n, s |-> s, c |-> c]
Num(n) == V("num", n, "", "")
Str(s) == V("str", 0, s, "")
True == V("bool", 1, "", "")
False == V("bool", 0, "", "")
Null == V("null", 0, "", "")
Undef == V("undef", 0, "", "")
NaN == V("nan", 0, "", "")
PInf == V("pinf", 0, "", "")
NInf == V("ninf", 0, "", "")
Fn == V("fn", 0, "", "")
\* a reference to the compound value (record or sequence) with identity i
Ptr(i) == V("ptr", i, "", "")
\* the encodings: {"#=": n}, {"#@": name, "#_": [arg]}
BackrefCell(n) == V("backref", n, "", "")
BuilderCell(name, arg) == V("builder", 0, arg, name)
\* a nested object of a wire text that is neither of the two encodings
ForeignCell == V("foreign", 0, "", "")
\* the result of reading a key an object does not have
Absent == V("absent", 0, "", "")

\* own keys of an encoding object
CellKeys(c) ==
    CASE c.t = "backref" -> {Backrefcode}
      [] c.t = "builder" -> {Buildcode, Valuecode}
      [] OTHER -> {}

\* ------------------------------------------------------------ objects
Obj(kind, proto, props, elems) ==
    [kind |-> kind, proto |-> proto, props |-> props, elems |-> elems]
NoObj == Obj("none", "", <<>>, <<>>)
P(k, v) == [k |-> k, v |-> v]

KeyIndex(o, k) ==
    IF \E i \in 1..Len(o.props) : o.props[i].k = k
    THEN CHOOSE i \in 1..Len(o.props) : o.props[i].k = k
    ELSE 0
HasKey(o, k) == KeyIndex(o, k) # 0
\* o[k]
GetProp(o, k) == IF HasKey(o, k) THEN o.props[KeyIndex(o, k)].v ELSE Undef
\* o[k] = v
SetProp(o, k, v) ==
    IF HasKey(o, k)
    THEN [o EXCEPT !.props[KeyIndex(o, k)].v = v]
    ELSE [o EXCEPT !.props = Append(@, P(k, v))]
\* delete o[k]
DelProp(o, k) ==
    [o EXCEPT !.props = SelectSeq(@, LAMBDA p : p.k # k)]
KeySet(o) == {o.props[i].k : i \in 1..Len(o.props)}

\* ------------------------------------------------- type predicates
\* Resurrect.isAtom: neither "[object Object]" nor "[object Array]"
IsAtom(v) == v.t \notin {"ptr", "backref", "builder", "foreign"}
IsFunction(v) == v.t = "fn"
IsNumber(v) == v.t \in {"num", "nan", "pinf", "ninf"}
IsNaN(v) == v.t = "nan"
IsFinite(v) == v.t = "num"

\* "" + atom, for the numbers _handleAtom passes to it
NumberToString(v) ==
    CASE v.t = "nan" -> "NaN"
      [] v.t = "pinf" -> "Infinity"
      [] v.t = "ninf" -> "-Infinity"
      [] OTHER -> ToString(v.n)
\* new Number(s).valueOf(), for the strings of the model
StringToNumber(s) ==
    CASE s = "Infinity" -> PInf
      [] s = "-Infinity" -> NInf
      [] OTHER -> NaN

\* ----------------------------------------------------------- resolver
\* A result that may be a thrown ResurrectError: err = "" is a normal return.
Ok(val) == [err |-> "", val |-> val]
Throw(err, val) == [err |-> err, val |-> val]
NoName == "<null>"

\* object.constructor.name, by the object's prototype.  "Imp" is the
\* prototype of a second class that is also named Dog; "Anon" that of an
\* anonymous class; "Cat" that of a class the scope does not hold.
ConstructorName(proto) ==
    CASE proto = "Imp" -> "Dog"
      [] proto = "Anon" -> ""
      [] OTHER -> proto
\* the resolver's scope: new NamespaceResolver({ Dog })
Scope == {"Dog"}
GetPrototype(name) ==
    IF name \in Scope THEN Ok(name) ELSE Throw("UnknownConstructor", "")
GetName(proto) ==
    LET constructor == ConstructorName(proto) IN
    IF constructor = "" THEN Throw("AnonymousType", "")
    ELSE IF constructor = "Object" \/ constructor = "Array" THEN Ok(NoName)
    ELSE Ok(constructor)

\* ------------------------------------------------------- encodings
IsTaggedNever(o) == FALSE
IsTaggedNulled(o) == HasKey(o, Refcode)
IsTagged(o) ==
    HasKey(o, Refcode) /\ GetProp(o, Refcode).t \notin {"null", "undef"}
\* _ref(object) for an object, and _ref(undefined)
RefRoot(o) == BackrefCell(0)
Ref(o) == BackrefCell(GetProp(o, Refcode).n)
RefUndefined == BackrefCell(-1)
Builder(name, arg) == BuilderCell(name, arg)

\* _tag(copy) with the table holding len entries: the tagged copy, or the
\* error thrown before anything was written.
Tag(copy, len, rv) ==
    LET nm == GetName(copy.proto) IN
    IF rv /\ nm.err # "" THEN Throw(nm.err, copy)
    ELSE IF rv /\ nm.val # NoName
    THEN LET pr == GetPrototype(nm.val) IN
         IF pr.err # "" THEN Throw(pr.err, copy)
         ELSE IF pr.val # copy.proto THEN Throw("ConstructorMismatch", copy)
         ELSE Ok(SetProp(SetProp(copy, Protocode, Str(nm.val)), Refcode, Num(len)))
    ELSE Ok(SetProp(copy, Refcode, Num(len)))

HandleAtomPlain(atom) ==
    IF IsFunction(atom) THEN Throw("UnserializableValue", atom) ELSE Ok(atom)
HandleAtomAll(atom) ==
    IF atom = Undef THEN Ok(RefUndefined)
    ELSE IF IsNumber(atom) /\ (IsNaN(atom) \/ ~IsFinite(atom))
    THEN Ok(Builder("Number", NumberToString(atom)))
    ELSE Ok(atom)
HandleAtom(atom) ==
    IF IsFunction(atom) THEN Throw("UnserializableValue", atom)
    ELSE IF atom = Undef THEN Ok(RefUndefined)
    ELSE IF IsNumber(atom) /\ (IsNaN(atom) \/ ~IsFinite(atom))
    THEN Ok(Builder("Number", NumberToString(atom)))
    ELSE Ok(atom)

\* ------------------------------------------------------ field filters
\* The caller's filter function of the model: it drops the key "b".
UserFn(k, v) == IF k = "b" THEN Undef ELSE v
\* The caller's allow-list of the model.
AcceptKeys == {"a"}
Reps == {"none", "fn", "list"}
\* the replacer stringify hands to _visit
Replacer(rp, k, v) ==
    CASE rp = "fn" -> IF HasPrefix(k) THEN v ELSE UserFn(k, v)
      [] rp = "list" -> IF k \in AcceptKeys THEN v ELSE Undef
      [] OTHER -> v
\* does this call reach the caller's function?
CallsUser(rp, k) == rp = "fn" /\ ~HasPrefix(k)

\* ------------------------------------------------------ the traversal
\* The state one stringify call works on: the caller's heap, the table
\* (this._table, the copies by value), the _visit activations in progress
\* (root: the object being copied, ci: the index of its copy in the table,
\* i: the property or element the loop is at), the keys the caller's
\* filter function was called with, and the error thrown, if any.
M(h, ents, stk, flg, err) ==
    [heap |-> h, ents |-> ents, stack |-> stk, flog |-> flg, err |-> err]

Top(stk) == stk[Len(stk)]
Pop(stk) == SubSeq(stk, 1, Len(stk) - 1)

\* The activation on top receives the value its recursive _visit call
\* returned: copy.push(...) or copy[key] = ..., and the loop moves on.
\* With no activation left the value is stringify's discarded result.
Deliver(m, val) ==
    IF m.stack = <<>> THEN m
    ELSE LET f == Top(m.stack)
             o == m.heap[f.root]
             copy == m.ents[f.ci]
             filled == IF o.kind = "arr"
                       THEN [copy EXCEPT !.elems = Append(@, val)]
                       ELSE SetProp(copy, o.props[f.i].k, val)
         IN [m EXCEPT !.ents[f.ci] = filled,
                      !.stack[Len(m.stack)].i = f.i + 1]

\* _visit(value): an atom goes through _handleAtom; an untagged compound
\* value gets its copy tagged and pushed on the table, is marked with the
\* copy's position, and its loop starts; a tagged one returns a reference.
Visit(m, value, rv) ==
    IF IsAtom(value)
    THEN LET a == HandleAtom(value) IN
         IF a.err # "" THEN [m EXCEPT !.err = a.err] ELSE Deliver(m, a.val)
    ELSE LET root == m.heap[value.n] IN
         IF ~IsTagged(root)
         THEN LET copy == IF root.kind = "arr"
                          THEN Obj("arr", "Array", <<>>, <<>>)
                          ELSE Obj("obj", root.proto, <<>>, <<>>)
                  tg == Tag(copy, Len(m.ents), rv)
              IN IF tg.err # "" THEN [m EXCEPT !.err = tg.err]
                 ELSE [m EXCEPT
                         !.ents = Append(@, tg.val),
                         !.heap[value.n] =
                             SetProp(root, Refcode, GetProp(tg.val, Refcode)),
                         !.stack = Append(@, [root |-> value.n,
                                              ci |-> Len(m.ents) + 1,
                                              i |-> 1])]
         ELSE Deliver(m, Ref(root))

\* One turn of the loop of the activation on top, or its return.
VisitStep(m, rp, rv) ==
    LET f == Top(m.stack)
        root == m.heap[f.root]
        n == IF root.kind = "arr" THEN Len(root.elems) ELSE Len(root.props)
    IN IF f.i > n
       THEN LET copy == SetProp(m.ents[f.ci], Origcode, Ptr(f.root)) IN
            Deliver([m EXCEPT !.ents[f.ci] = copy, !.stack = Pop(@)], Ref(copy))
       ELSE IF root.kind = "arr"
       THEN Visit(m, root.elems[f.i], rv)
       ELSE LET key == root.props[f.i].k
                value == root.props[f.i].v
            IN IF rp # "none" /\ value # Undef
               THEN LET replaced == Replacer(rp, key, value)
                        logged == IF CallsUser(rp, key)
                                  THEN [m EXCEPT !.flog = Append(@, key)]
                                  ELSE m
                    IN IF replaced = Undef
                       THEN [logged EXCEPT !.stack[Len(m.stack)].i = f.i + 1]
                       ELSE Visit(logged, replaced, rv)
               ELSE Visit(m, value, rv)

\* ------------------------------------------------------ the flat text
\* JSON.stringify of a value held by a table entry or returned by
\* _handleAtom: a non-finite number is written as null.
JsonValue(v) == IF v.t \in {"nan", "pinf", "ninf"} THEN Null ELSE v
\* values JSON.stringify leaves out of a record (and writes as null in a
\* sequence)
JsonOmits(v) == v.t \in {"undef", "fn"}
Entry(kind, props, elems) == [kind |-> kind, props |-> props, elems |-> elems]
JsonProps(props) ==
    LET kept == SelectSeq(props, LAMBDA p : ~JsonOmits(p.v)) IN
    [i \in 1..Len(kept) |-> P(kept[i].k, JsonValue(kept[i].v))]
JsonElems(elems) ==
    [i \in 1..Len(elems) |->
        IF JsonOmits(elems[i]) THEN Null ELSE JsonValue(elems[i])]
\* own enumerable properties of a record, the elements of a sequence; the
\* prototype is not written
JsonEntry(o) ==
    IF o.kind = "arr" THEN Entry("arr", <<>>, JsonElems(o.elems))
    ELSE Entry("obj", JsonProps(o.props), <<>>)
Wire(form, atom, ents) == [form |-> form, atom |-> atom, ents |-> ents]
NoWire == Wire("none", Null, <<>>)
JsonTable(ents) == Wire("table", Null, [i \in 1..Len(ents) |-> JsonEntry(ents[i])])

\* The loop of stringify after the traversal: the marker of every original
\* is deleted (cleanup) or nulled, the copy loses its marker and its link.
RECURSIVE CleanupLoopMarked(_, _, _, _)
CleanupLoopMarked(h, ents, i, cl) ==
    IF i > Len(ents) THEN [heap |-> h, ents |-> ents]
    ELSE LET orig == GetProp(ents[i], Origcode).n
             h2 == [h EXCEPT ![orig] = IF cl THEN DelProp(@, Refcode)
                                        ELSE SetProp(@, Refcode, Null)]
             e2 == [ents EXCEPT ![i] = DelProp(@, Origcode)]
         IN CleanupLoopMarked(h2, e2, i + 1, cl)
RECURSIVE CleanupLoop(_, _, _, _)
CleanupLoop(h, ents, i, cl) ==
    IF i > Len(ents) THEN [heap |-> h, ents |-> ents]
    ELSE LET orig == GetProp(ents[i], Origcode).n
             h2 == [h EXCEPT ![orig] = IF cl THEN DelProp(@, Refcode)
                                        ELSE SetProp(@, Refcode, Null)]
             e2 == [ents EXCEPT ![i] = DelProp(DelProp(@, Refcode), Origcode)]
         IN CleanupLoop(h2, e2, i + 1, cl)

\* JSON.stringify(value, replacer) of what _handleAtom returned for an atom
\* root.  The replacer is first called with the key "" and the value; for
\* an encoding object it is then called with each key, and with the index
\* "0" of the builder's argument list.  An allow-list has become a
\* function by then.  The result: is there a text, the text, and the keys
\* the caller's function was called with.
JsonKeys(val) ==
    IF val.t = "builder" THEN <<"", Buildcode, Valuecode, "0">>
    ELSE IF val.t = "backref" THEN <<"", Backrefcode>>
    ELSE <<"">>
KeysSeen(val, rp) == SelectSeq(JsonKeys(val), LAMBDA k : CallsUser(rp, k))
JsonStringifyRoot(val, rp) ==
    LET top == Replacer(rp, "", val) IN
    IF JsonOmits(top) THEN [some |-> FALSE, text |-> NoWire, flog |-> KeysSeen(Undef, rp)]
    ELSE IF IsAtom(top)
    THEN [some |-> TRUE, text |-> Wire("atom", JsonValue(top), <<>>),
          flog |-> KeysSeen(top, rp)]
    ELSE [some |-> TRUE, text |-> Wire("cell", top, <<>>), flog |-> KeysSeen(top, rp)]

\* stringify(object, replacer) of the compound root 1 as one function of
\* the caller's heap: the traversal run to its end or to its error, the
\* cleanup loop, the text.
RECURSIVE VisitAll(_, _, _)
VisitAll(m, rp, rv) ==
    IF m.err # "" \/ m.stack = <<>> THEN m
    ELSE CHOOSE r \in {VisitAll(n, rp, rv) : n \in {VisitStep(m, rp, rv)}} : TRUE
StringifyAll(h, rp, rv, cl) ==
    LET m == VisitAll(Visit(M(h, <<>>, <<>>, <<>>, ""), Ptr(1), rv), rp, rv) IN
    IF m.err # "" THEN [err |-> m.err, text |-> NoWire, heap |-> m.heap]
    ELSE LET c == CleanupLoop(m.heap, m.ents, 1, cl) IN
         [err |-> "", text |-> JsonTable(c.ents), heap |-> c.heap]

\* ---------------------------------------------------------- resurrect
\* JSON.parse of a table: fresh objects with the default prototypes
ParseEntry(e) ==
    Obj(e.kind, IF e.kind = "arr" THEN "Array" ELSE "Object", e.props, e.elems)
JsonParse(w) == [i \in 1..Len(w.ents) |-> ParseEntry(w.ents[i])]

\* _fixPrototype: "__proto__" in object holds of every parsed object, so
\* the prototype is set in place and the tag is deleted only by cleanup.
FixPrototypeNone(o, cl) == Ok(o)
FixPrototype(o, cl) ==
    IF HasKey(o, Protocode)
    THEN LET pr == GetPrototype(GetProp(o, Protocode).s) IN
         IF pr.err # "" THEN Throw(pr.err, o)
         ELSE Ok(IF cl THEN DelProp([o EXCEPT !.proto = pr.val], Protocode)
                 ELSE [o EXCEPT !.proto = pr.val])
    ELSE Ok(o)

\* the first loop of resurrect, from entry i on
RECURSIVE FixLoop(_, _, _)
FixLoop(ents, i, cl) ==
    IF i > Len(ents) THEN Ok(ents)
    ELSE LET fx == FixPrototype(ents[i], cl) IN
         IF fx.err # "" THEN Throw(fx.err, ents)
         ELSE FixLoop([ents EXCEPT ![i] = fx.val], i + 1, cl)

\* this._table[ref[backrefcode]] with a table of len entries; the entry at
\* position n is the rebuilt object n + 1
Deref(ref, len) == IF 0 <= ref.n /\ ref.n < len THEN Ptr(ref.n + 1) ELSE Undef
\* _build: new Number(arg), unwrapped.  Number is the only constructor the
\* builders of the model name.
Build(ref) ==
    IF ref.c = "Number" THEN Ok(StringToNumber(ref.s)) ELSE Throw("TypeError", ref)
Decode(ref, len) ==
    IF Backrefcode \in CellKeys(ref) THEN Ok(Deref(ref, len))
    ELSE IF Buildcode \in CellKeys(ref) THEN Build(ref)
    ELSE Throw("UnknownEncoding", ref)

\* the second loop of resurrect, from key j of entry i on
RECURSIVE ResolveLoop(_, _, _)
ResolveLoop(ents, i, j) ==
    IF i > Len(ents) THEN Ok(ents)
    ELSE LET o == ents[i]
             n == IF o.kind = "arr" THEN Len(o.elems) ELSE Len(o.props)
         IN IF j > n THEN ResolveLoop(ents, i + 1, 1)
            ELSE LET cell == IF o.kind = "arr" THEN o.elems[j] ELSE o.props[j].v IN
                 IF IsAtom(cell) THEN ResolveLoop(ents, i, j + 1)
                 ELSE LET d == Decode(cell, Len(ents)) IN
                      IF d.err # "" THEN Throw(d.err, ents)
                      ELSE ResolveLoop(
                             IF o.kind = "arr"
                             THEN [ents EXCEPT ![i].elems[j] = d.val]
                             ELSE [ents EXCEPT ![i].props[j].v = d.val],
                             i, j + 1)

\* resurrect(text): the error thrown or "", the result, the objects built
\* (by table position) and this._table as the call leaves it.
Outcome(err, val, objs, tnull, tents) ==
    [err |-> err, val |-> val, objs |-> objs, tnull |-> tnull, tents |-> tents]
ResurrectText(w, rv, cl, tbl) ==
    CASE w.form = "table" ->
           LET data == JsonParse(w)
               fixed == IF rv THEN FixLoop(data, 1, cl) ELSE Ok(data)
           IN IF fixed.err # ""
              THEN Outcome(fixed.err, Undef, <<>>, FALSE, fixed.val)
              ELSE LET done == ResolveLoop(fixed.val, 1, 1) IN
                   IF done.err # ""
                   THEN Outcome(done.err, Undef, <<>>, FALSE, done.val)
                   ELSE Outcome("", IF Len(done.val) > 0 THEN Ptr(1) ELSE Undef,
                                done.val, TRUE, <<>>)
      [] w.form = "cell" ->
           LET d == Decode(w.atom, 0) IN
           IF d.err # "" THEN Outcome(d.err, Undef, <<>>, FALSE, <<>>)
           ELSE Outcome("", d.val, <<>>, TRUE, <<>>)
      [] w.form = "atom" -> Outcome("", w.atom, <<>>, TRUE, <<>>)
      [] OTHER -> Outcome("SyntaxError", Undef, <<>>, tbl.isnull, tbl.ents)

\* -------------------------------------------------------------- state
VARIABLES
    opt,     \* the instance's options: [cleanup, revive]
    heap,    \* the caller's objects, by identity
    rheap,   \* the objects the last resurrect built, by table position + 1
    table,   \* this._table: [isnull, ents]
    pc,      \* "idle", or "visit" while a stringify is traversing
    stack,   \* the _visit activations of the stringify in progress
    out,     \* what the last stringify was given and returned
    res,     \* what the last resurrect returned
    flog,    \* the keys the caller's filter function was called with
    calls    \* operations started so far
vars == <<opt, heap, rheap, table, pc, stack, out, res, flog, calls>>

Ids == 1..NObj
TableNull == [isnull |-> TRUE, ents |-> <<>>]
TableOf(ents) == [isnull |-> FALSE, ents |-> ents]
EmptyHeap == [i \in Ids |-> NoObj]

\* objects reachable from the value v in heap h
RECURSIVE ReachFrom(_, _)
ReachFrom(h, S) ==
    LET more == {x \in Ids : \E y \in S :
                    \/ \E i \in 1..Len(h[y].props) : h[y].props[i].v = Ptr(x)
                    \/ \E i \in 1..Len(h[y].elems) : h[y].elems[i] = Ptr(x)}
    IN IF more \subseteq S THEN S ELSE ReachFrom(h, S \cup more)
Reach(h, v) == IF v.t = "ptr" THEN ReachFrom(h, {v.n}) ELSE {}
\* no object of the graph under v carries a key of the engine
NoReservedKeys(h, v) == \A x \in Reach(h, v) : KeySet(h[x]) \cap ReservedKeys = {}

OutRec(status, err, text, root, rp, clean) ==
    [status |-> status, err |-> err, text |-> text, root |-> root,
     rep |-> rp, clean |-> clean]
NoOut == OutRec("none", "", NoWire, Undef, "none", FALSE)
ResRec(status, err, val, src) ==
    [status |-> status, err |-> err, val |-> val, src |-> src]
NoRes == ResRec("none", "", Undef, "")

\* ----------------------------------------------------- initial states
\* A caller's object: a sequence of the values vs, or a record with the
\* prototype proto whose i-th field holds vs[i].
Shape(kind, vs) ==
    IF kind = "Array" THEN Obj("arr", "Array", <<>>, vs)
    ELSE Obj("obj", kind, [i \in 1..Len(vs) |-> P(DataKeys[i], vs[i])], <<>>)
ValSeqs(vals) == UNION {[1..n -> vals] : n \in 0..MaxSlots}
Shapes(kinds, vals) == {Shape(k, vs) : k \in kinds, vs \in ValSeqs(vals)}
Pointers == {Ptr(i) : i \in Ids}
\* The caller's graphs: object 1 is the root the caller serializes, every
\* other object is reachable from it, and no reference dangles.
Graphs(kinds, atoms) ==
    {h \in [Ids -> Shapes(kinds, atoms \cup Pointers) \cup {NoObj}] :
        /\ h[1] # NoObj
        /\ {x \in Ids : h[x] # NoObj} = ReachFrom(h, {1})}
Options == [cleanup : BOOLEAN, revive : BOOLEAN]

InitWith(hs) ==
    /\ opt \in Options
    /\ heap \in hs
    /\ rheap = EmptyHeap
    /\ table = TableNull
    /\ pc = "idle"
    /\ stack = <<>>
    /\ out = NoOut
    /\ res = NoRes
    /\ flog = <<>>
    /\ calls = 0

\* ------------------------------------------------------------ actions
\* stringify(object, replacer) of a compound root, up to the first turn
\* of the traversal: the table is replaced by a fresh one.
Begun(m, root, rp) ==
    /\ heap' = m.heap
    /\ table' = TableOf(m.ents)
    /\ stack' = m.stack
    /\ flog' = m.flog
    /\ pc' = IF m.err # "" THEN "idle" ELSE "visit"
    /\ out' = OutRec(IF m.err # "" THEN "error" ELSE "pending", m.err, NoWire,
                     root, rp, NoReservedKeys(heap, root))
StringifyBegin(rp) ==
    /\ pc = "idle"
    /\ calls < MaxCalls
    /\ heap[1] # NoObj
    /\ \E m \in {Visit(M(heap, <<>>, <<>>, <<>>, ""), Ptr(1), opt.revive)} :
          Begun(m, Ptr(1), rp)
    /\ calls' = calls + 1
    /\ res' = NoRes
    /\ UNCHANGED <<opt, rheap>>

\* the traversal goes on by one turn; an error leaves stringify there
Stepped(m) ==
    /\ heap' = m.heap
    /\ table' = TableOf(m.ents)
    /\ stack' = IF m.err # "" THEN <<>> ELSE m.stack
    /\ flog' = m.flog
    /\ pc' = IF m.err # "" THEN "idle" ELSE "visit"
    /\ out' = IF m.err # "" THEN [out EXCEPT !.status = "error", !.err = m.err]
              ELSE out
StringifyStep ==
    /\ pc = "visit"
    /\ stack # <<>>
    /\ \E m \in {VisitStep(M(heap, table.ents, stack, flog, ""), out.rep, opt.revive)} :
          Stepped(m)
    /\ UNCHANGED <<opt, rheap, res, calls>>

\* the traversal is over: markers are cleaned, the table is detached and
\* written as text
StringifyFinish ==
    /\ pc = "visit"
    /\ stack = <<>>
    /\ \E c \in {CleanupLoop(heap, table.ents, 1, opt.cleanup)} :
       /\ heap' = c.heap
       /\ out' = [out EXCEPT !.status = "ok", !.text = JsonTable(c.ents)]
    /\ table' = TableNull
    /\ pc' = "idle"
    /\ UNCHANGED <<opt, rheap, stack, res, flog, calls>>

\* resurrect(text) of the text the last stringify returned
Resurrected(r, src) ==
    /\ rheap' = [i \in Ids |-> IF i <= Len(r.objs) THEN r.objs[i] ELSE NoObj]
    /\ table' = [isnull |-> r.tnull, ents |-> r.tents]
    /\ res' = ResRec(IF r.err # "" THEN "error" ELSE "ok", r.err, r.val, src)
Resurrect ==
    /\ pc = "idle"
    /\ calls < MaxCalls
    /\ out.status = "ok"
    /\ \E r \in {ResurrectText(out.text, opt.revive, opt.cleanup, table)} :
          Resurrected(r, "out")
    /\ calls' = calls + 1
    /\ UNCHANGED <<opt, heap, pc, stack, out, flog>>

\* the caller goes on with the objects resurrect returned
Adopt ==
    /\ pc = "idle"
    /\ calls < MaxCalls
    /\ res.status = "ok"
    /\ res.val = Ptr(1)
    /\ heap' = rheap
    /\ rheap' = EmptyHeap
    /\ out' = NoOut
    /\ res' = NoRes
    /\ calls' = calls + 1
    /\ UNCHANGED <<opt, table, pc, stack, flog>>

\* stringify(atom, replacer): the table is not touched, and neither is any
\* object, so the call is taken by a caller that holds no objects.
StringifyAtom(atom, rp) ==
    /\ pc = "idle"
    /\ calls < MaxCalls
    /\ heap = EmptyHeap
    /\ LET a == HandleAtom(atom)
           j == JsonStringifyRoot(a.val, rp)
       IN IF a.err # ""
          THEN /\ out' = OutRec("error", a.err, NoWire, atom, rp, TRUE)
               /\ flog' = <<>>
          ELSE /\ out' = OutRec(IF j.some THEN "ok" ELSE "undefined", "",
                                j.text, atom, rp, TRUE)
               /\ flog' = j.flog
    /\ res' = NoRes
    /\ calls' = calls + 1
    /\ UNCHANGED <<opt, heap, rheap, table, pc, stack>>

\* Texts written by other serializer instances with the same prefix:
\*   [{"#+":"Dog","a":1}]   a tagged entry (written with revive on)
\*   [{"#+":"Cat","a":1}]   a tag the resolver does not know
\*   [{"a":{"x":1}}]        a cell that is no encoding
ForeignTexts ==
    {Wire("table", Null, <<Entry("obj", <<P(Protocode, Str("Dog")), P("a", Num(1))>>, <<>>)>>),
     Wire("table", Null, <<Entry("obj", <<P(Protocode, Str("Cat")), P("a", Num(1))>>, <<>>)>>),
     Wire("table", Null, <<Entry("obj", <<P("a", ForeignCell)>>, <<>>)>>)}
\* resurrect(text) of such a text, by a caller that holds no objects yet
ResurrectForeign(w) ==
    /\ pc = "idle"
    /\ calls < MaxCalls
    /\ heap = EmptyHeap
    /\ Resurrected(ResurrectText(w, opt.revive, opt.cleanup, table), "foreign")
    /\ calls' = calls + 1
    /\ UNCHANGED <<opt, heap, pc, stack, out, flog>>

Atoms == {Num(1), Str("s"), True, Null, Undef, NaN, PInf, NInf, Fn}
Init == InitWith(Graphs({"Array", "Object", "Dog", "Anon"}, {Num(1), Fn}) \cup {EmptyHeap})
Next ==
    \/ \E rp \in Reps : StringifyBegin(rp)
    \/ \E a \in Atoms, rp \in Reps : StringifyAtom(a, rp)
    \/ StringifyStep
    \/ StringifyFinish
    \/ Resurrect
    \/ \E w \in ForeignTexts : ResurrectForeign(w)
    \/ Adopt
Spec == Init /\ [][Next]_vars

\* Records and sequences of atoms with every kind of prototype, and atoms
\* as roots.
AtomGraphs ==
    {[i \in Ids |-> IF i = 1 THEN o ELSE NoObj] :
        o \in Shapes({"Array", "Object", "Dog", "Imp", "Anon", "Cat"}, Atoms)}
    \cup {EmptyHeap}
InitAtoms == InitWith(AtomGraphs)
NextAtoms ==
    \/ \E rp \in Reps : StringifyBegin(rp)
    \/ \E a \in Atoms, rp \in Reps : StringifyAtom(a, rp)
    \/ StringifyStep
    \/ StringifyFinish
    \/ Resurrect
SpecAtoms == InitAtoms /\ [][NextAtoms]_vars

\* A stringify, once begun, runs to its end: the call is synchronous.
\* The graphs are all the graphs of references between sequences and
\* typed records: every cell refers to an object.
InitCyc == InitWith(Graphs({"Array", "Dog"}, {}))
NextCyc ==
    \/ StringifyBegin("none")
    \/ StringifyStep
    \/ StringifyFinish
    \/ Resurrect
FairSpec ==
    InitCyc /\ [][NextCyc]_vars /\ WF_vars(StringifyStep) /\ WF_vars(StringifyFinish)

\* --------------------------------------------- comparing two graphs
\* The cells of an object: the fields of a record, the elements of a
\* sequence under their index.
Slots(o) ==
    IF o.kind = "arr" THEN [i \in 1..Len(o.elems) |-> P(IdxKeys[i], o.elems[i])]
    ELSE o.props
SlotKeys(o) == {Slots(o)[i].k : i \in 1..Len(Slots(o))}
SlotVal(o, k) ==
    IF k \in SlotKeys(o)
    THEN Slots(o)[CHOOSE i \in 1..Len(Slots(o)) : Slots(o)[i].k = k].v
    ELSE Absent

\* A stringify of the caller's root has returned a text and resurrect has
\* rebuilt it (both calls of the same instance).
RoundTrip ==
    /\ pc = "idle"
    /\ out.status = "ok"
    /\ res.status = "ok"
    /\ res.src = "out"
\* ... of a graph that carried no key of the engine when stringify was
\* called, with no field filter
FreshRoundTrip == RoundTrip /\ out.clean /\ out.rep = "none"
GraphRoundTrip == FreshRoundTrip /\ out.root = Ptr(1)

\* The pairs <<x, y>>: the caller's object x and the rebuilt object y are
\* reached from the two roots through the same cells.
RECURSIVE CorrFrom(_)
CorrFrom(S) ==
    LET more == {pr \in Ids \X Ids :
                   \E q \in S : \E k \in SlotKeys(heap[q[1]]) :
                      /\ SlotVal(heap[q[1]], k) = Ptr(pr[1])
                      /\ SlotVal(rheap[q[2]], k) = Ptr(pr[2])}
    IN IF more \subseteq S THEN S ELSE CorrFrom(S \cup more)
Corr == IF res.val.t = "ptr" THEN CorrFrom({<<1, res.val.n>>}) ELSE {}

\* -------------------------------------------------------------- claims
\* C1: identity preservation.  After resurrect(stringify(root)) every cell
\* that referred to a compound value refers to one, two cells that
\* referred to the same compound value refer to the same rebuilt object,
\* and two that referred to distinct ones refer to distinct rebuilt objects.
C1_IdentityPreserved ==
    GraphRoundTrip =>
        /\ res.val.t = "ptr"
        /\ \A q \in Corr : \A k \in SlotKeys(heap[q[1]]) :
              SlotVal(heap[q[1]], k).t = "ptr" => SlotVal(rheap[q[2]], k).t = "ptr"
        /\ \A q1, q2 \in Corr : (q1[1] = q2[1]) <=> (q1[2] = q2[2])
\* two cells of the root refer to the same object, a third cell to another
C1_Witness ==
    /\ GraphRoundTrip
    /\ \E k1, k2 \in SlotKeys(heap[1]) :
          /\ k1 # k2
          /\ SlotVal(heap[1], k1) = Ptr(2)
          /\ SlotVal(heap[1], k2) = Ptr(2)
    /\ \E k \in SlotKeys(heap[2]) : SlotVal(heap[2], k) = Ptr(1)

\* every own key of an object: the indices of a sequence count as keys
OwnKeys(o) == SlotKeys(o) \cup KeySet(o)
\* the rebuilt object y holds under every data key of x what x holds: the
\* same atom, or a reference where x holds a reference
SameValues(x, y) ==
    \A k \in OwnKeys(heap[x]) \ ReservedKeys :
        LET v == SlotVal(heap[x], k)
            w == SlotVal(rheap[y], k)
        IN IF v.t = "ptr" THEN w.t = "ptr" ELSE w = v
\* an edge x.k -> a of heap h lies on a cycle: x is reachable from a
OnCycle(h, x, k) ==
    /\ SlotVal(h[x], k).t = "ptr"
    /\ x \in ReachFrom(h, {SlotVal(h[x], k).n})
CyclicEdgesKept ==
    \A q \in Corr : \A k \in SlotKeys(heap[q[1]]) :
        OnCycle(heap, q[1], k) =>
            /\ OnCycle(rheap, q[2], k)
            /\ <<SlotVal(heap[q[1]], k).n, SlotVal(rheap[q[2]], k).n>> \in Corr
            /\ (SlotVal(heap[q[1]], k) = Ptr(q[1]) => SlotVal(rheap[q[2]], k) = Ptr(q[2]))

\* C2: cycle safety.  A traversal never holds more activations than there
\* are compound values, every stringify that has begun ends, and after
\* resurrect(stringify(root)) every edge of the input that lies on a cycle
\* is an edge on a cycle between the corresponding rebuilt objects (a
\* self-reference is a self-reference).  resurrect itself is two bounded
\* loops over the parsed table.
C2_CycleSafety ==
    /\ [](Len(stack) <= NObj)
    /\ (pc = "visit") ~> (pc = "idle")
    /\ [](GraphRoundTrip => CyclicEdgesKept)
\* the root refers to itself and lies on a second cycle through object 2
C2_Witness ==
    /\ GraphRoundTrip
    /\ \E k \in SlotKeys(heap[1]) : SlotVal(heap[1], k) = Ptr(1)
    /\ \E k \in SlotKeys(heap[1]) : SlotVal(heap[1], k) = Ptr(2)
    /\ \E k \in SlotKeys(heap[2]) : SlotVal(heap[2], k) = Ptr(1)

\* the graph under the root is a tree of untyped records and sequences
InEdges(h, x) ==
    {e \in Ids \X (1..MaxSlots + 2) :
        /\ e[2] <= Len(Slots(h[e[1]]))
        /\ Slots(h[e[1]])[e[2]].v = Ptr(x)}
PlainTree(h) ==
    /\ \A x \in ReachFrom(h, {1}) :
          /\ h[x].proto \in {"Object", "Array"}
          /\ Cardinality(InEdges(h, x)) = IF x = 1 THEN 0 ELSE 1
DeepEqualBut(ignored) ==
    /\ res.val.t = "ptr"
    /\ \A q \in Corr :
          /\ heap[q[1]].kind = rheap[q[2]].kind
          /\ OwnKeys(heap[q[1]]) \ ignored = OwnKeys(rheap[q[2]])
          /\ SameValues(q[1], q[2])

\* C3 (as amended): round-trip structure.  For a tree of untyped records
\* and sequences, resurrect(stringify(v)) has at every node the kind, the
\* keys and the atoms of v, except that v itself keeps the nulled identity
\* marker stringify leaves on it when cleanup is off; with cleanup on the
\* two are deeply equal.
C3_RoundTripStructure ==
    (GraphRoundTrip /\ PlainTree(heap)) =>
        /\ DeepEqualBut({Refcode})
        /\ opt.cleanup => DeepEqualBut({})
        /\ ~opt.cleanup => \A x \in ReachFrom(heap, {1}) : GetProp(heap[x], Refcode) = Null
C3_Witness ==
    /\ GraphRoundTrip
    /\ PlainTree(heap)
    /\ ~opt.cleanup
    /\ heap[1].kind = "obj"
    /\ Len(heap[1].props) >= 2
    /\ \E k \in SlotKeys(heap[1]) : SlotVal(heap[1], k) = Ptr(2)
    /\ \E k \in SlotKeys(heap[2]) : SlotVal(heap[2], k) = Num(1)
\* C3 as stated: deeply equal to v, with no added or missing keys
C3_Original ==
    (GraphRoundTrip /\ PlainTree(heap)) => DeepEqualBut({})

\* C4: atom round trip.  resurrect(stringify(v)) is v for every atom v
\* that is no function, as the root and as a field of a record; the
\* missing value is written as the back-reference -1 and comes back as a
\* key holding the missing value.
EntryVal(e, k) ==
    IF \E i \in 1..Len(e.props) : e.props[i].k = k
    THEN e.props[CHOOSE i \in 1..Len(e.props) : e.props[i].k = k].v
    ELSE Absent
C4_AtomRoundTrip ==
    /\ (FreshRoundTrip /\ IsAtom(out.root)) =>
          /\ res.val = out.root
          /\ out.root = Undef => out.text = Wire("cell", BackrefCell(-1), <<>>)
    /\ (GraphRoundTrip /\ heap[1].kind = "obj") =>
          \A k \in KeySet(heap[1]) \ ReservedKeys :
              LET v == GetProp(heap[1], k) IN
              IsAtom(v) =>
                  /\ HasKey(rheap[1], k)
                  /\ GetProp(rheap[1], k) = v
                  /\ v = Undef => EntryVal(out.text.ents[1], k) = BackrefCell(-1)
C4_Witness ==
    /\ GraphRoundTrip
    /\ heap[1].kind = "obj"
    /\ GetProp(heap[1], "a") = Undef
    /\ GetProp(heap[1], "b") = NInf
    /\ HasKey(rheap[1], "a")

\* C5 (as amended): type restoration.  With revive on, every instance of
\* the registered type Dog, at the root or nested, comes back with Dog's
\* prototype and with its data fields; when cleanup is off the rebuilt
\* object also keeps the type tag as a field and the original keeps the
\* nulled identity marker, with cleanup on the two have the same fields.
C5_TypeRestored ==
    (GraphRoundTrip /\ opt.revive) =>
        \A q \in Corr :
            heap[q[1]].proto = "Dog" =>
                /\ rheap[q[2]].proto = "Dog"
                /\ OwnKeys(heap[q[1]]) \ {Refcode} = OwnKeys(rheap[q[2]]) \ {Protocode}
                /\ SameValues(q[1], q[2])
                /\ opt.cleanup => OwnKeys(heap[q[1]]) = OwnKeys(rheap[q[2]])
                /\ ~opt.cleanup => GetProp(rheap[q[2]], Protocode) = Str("Dog")
C5_Witness ==
    /\ GraphRoundTrip
    /\ opt.revive
    /\ ~opt.cleanup
    /\ heap[1].proto = "Object"
    /\ heap[2].proto = "Dog"
    /\ GetProp(heap[2], "a") = Num(1)
    /\ rheap[2].proto = "Dog"
\* C5 as stated: the stored fields are the same as x's stored fields
C5_Original ==
    (GraphRoundTrip /\ opt.revive) =>
        \A q \in Corr :
            heap[q[1]].proto = "Dog" =>
                /\ rheap[q[2]].proto = "Dog"
                /\ OwnKeys(heap[q[1]]) = OwnKeys(rheap[q[2]])
                /\ SameValues(q[1], q[2])

\* C6: with revive off no table entry written by stringify carries a type
\* tag, whatever was done to the objects before, and resurrect restores
\* no type: every rebuilt object is a plain record or sequence.
C6_NoTypeTags ==
    /\ (~opt.revive /\ out.status = "ok" /\ out.text.form = "table") =>
          \A i \in 1..Len(out.text.ents) :
              EntryVal(out.text.ents[i], Protocode) = Absent
    /\ (~opt.revive /\ res.status = "ok") =>
          \A x \in Ids : rheap[x] # NoObj => rheap[x].proto \in {"Object", "Array"}

\* a stringify call has returned or thrown
Ended == pc = "idle" /\ out.status \in {"ok", "error", "undefined"}
\* a function is the root or a cell of an object under the root
FnReachable ==
    IF out.root.t = "ptr"
    THEN \E x \in Reach(heap, out.root) : \E k \in SlotKeys(heap[x]) :
            SlotVal(heap[x], k) = Fn
    ELSE out.root = Fn

\* C7 (as amended): with no field filter and no reserved key on the
\* objects when the call starts, a stringify whose graph holds a function
\* (the root, a field at any depth, a sequence element) returns no text
\* and throws: UnserializableValue, or, with revive on and an object of
\* an anonymous type in the graph, the AnonymousType error of an object
\* visited before the function.
C7_FunctionRejected ==
    (Ended /\ FnReachable /\ out.clean /\ out.rep = "none") =>
        /\ out.status = "error"
        /\ out.text = NoWire
        /\ out.err \in {"UnserializableValue", "AnonymousType"}
        /\ out.err = "AnonymousType" =>
              /\ opt.revive
              /\ \E x \in Reach(heap, out.root) : heap[x].proto = "Anon"
C7_Witness ==
    /\ Ended
    /\ out.clean
    /\ out.rep = "none"
    /\ out.root = Ptr(1)
    /\ heap[1].kind = "obj"
    /\ SlotVal(heap[1], "a") = Ptr(2)
    /\ heap[2].kind = "arr"
    /\ heap[2].elems = <<Num(1), Fn>>
    /\ out.err = "UnserializableValue"
\* C7 as stated: UnserializableValue wherever the function is
C7_Original ==
    (Ended /\ FnReachable) =>
        /\ out.status = "error"
        /\ out.err = "UnserializableValue"
        /\ out.text = NoWire

\* C8: table lifecycle.  Between calls the instance holds no table: the
\* table is detached when a call ends, on return and on every error.
C8_TableDetached == pc = "idle" => table.isnull

\* C9: rollback on error.  After a stringify that failed no object is
\* left with a non-null identity marker, and a later stringify of a
\* compound root gives the root a fresh table position.
C9_RolledBack ==
    /\ (pc = "idle" /\ out.status = "error") => \A x \in Ids : ~IsTagged(heap[x])
    /\ (pc = "idle" /\ out.status = "ok" /\ out.root.t = "ptr") =>
          Len(out.text.ents) >= 1

\* C10: cleanup option.  With cleanup on, a successful stringify leaves no
\* reserved key on objects that had none, and a successful resurrect
\* leaves none on the objects it built; with cleanup off the marker left
\* on an object of the graph is null.
C10_Cleanup ==
    /\ (opt.cleanup /\ pc = "idle" /\ out.status = "ok" /\ out.clean) =>
          NoReservedKeys(heap, out.root)
    /\ (opt.cleanup /\ res.status = "ok") =>
          \A x \in Ids : KeySet(rheap[x]) \cap ReservedKeys = {}
    /\ (~opt.cleanup /\ pc = "idle" /\ out.status = "ok") =>
          \A x \in Reach(heap, out.root) :
              HasKey(heap[x], Refcode) => GetProp(heap[x], Refcode) = Null

\* C11: allow-list filter.  When the filter given to stringify is a list
\* of key names, an entry written for a record holds, besides the type
\* tag, only keys of the list: every other own key is left out, whatever
\* it holds.
C11_AllowList ==
    (pc = "idle" /\ out.status = "ok" /\ out.rep = "list" /\ out.text.form = "table") =>
        \A i \in 1..Len(out.text.ents) :
            LET e == out.text.ents[i] IN
            e.kind = "obj" =>
                \A j \in 1..Len(e.props) : e.props[j].k \in AcceptKeys \cup {Protocode}

\* C12: the caller's filter function is never called with a key that
\* begins with the prefix, whether the objects carry keys left by earlier
\* calls or the root is an atom written as an encoding object.
C12_FilterSeesNoReservedKey ==
    \A i \in 1..Len(flog) : flog[i] \notin ReservedKeys
\* a filtered stringify of a typed record that earlier calls left with a
\* type tag and a nulled marker
C12_Witness ==
    /\ pc = "idle"
    /\ out.status = "ok"
    /\ out.rep = "fn"
    /\ ~out.clean
    /\ {Refcode, Protocode} \subseteq KeySet(heap[1])
    /\ flog = <<"a">>

\* does the traversal follow the cell p of the object o under filter rp?
Kept(rp, o, p) == o.kind = "arr" \/ Replacer(rp, p.k, p.v) # Undef
\* The compound values under x through the kept cells, in first-visit
\* order (pre-order, depth first, cells in property or element order),
\* after those of acc.
RECURSIVE PreVisit(_, _, _, _)
RECURSIVE PreCells(_, _, _, _, _)
PreVisit(h, rp, x, acc) ==
    IF \E i \in 1..Len(acc) : acc[i] = x THEN acc
    ELSE PreCells(h, rp, x, 1, Append(acc, x))
PreCells(h, rp, x, i, acc) ==
    IF i > Len(Slots(h[x])) THEN acc
    ELSE LET p == Slots(h[x])[i] IN
         IF p.v.t = "ptr" /\ Kept(rp, h[x], p)
         THEN PreCells(h, rp, x, i + 1, PreVisit(h, rp, p.v.n, acc))
         ELSE PreCells(h, rp, x, i + 1, acc)
PreOrder == PreVisit(heap, out.rep, 1, <<>>)
\* every back-reference to a table position held by the cells written so
\* far for the object ord[i] stands where the object holds a reference to
\* the object of that position
BackrefsMatch(ents, ord) ==
    \A i \in 1..Len(ents) : \A k \in SlotKeys(ents[i]) :
        LET c == SlotVal(ents[i], k) IN
        (c.t = "backref" /\ c.n >= 0) =>
            /\ c.n < Len(ord)
            /\ SlotVal(heap[ord[i]], k) = Ptr(ord[c.n + 1])

\* C13: table positions.  Within one stringify of a compound root the
\* distinct compound values under the root (through the kept cells) get
\* the positions 0, 1, 2, ... in first-visit order, one each, the root
\* 0; a value has its position before its cells are visited; the table
\* is as long as there are such values; a back-reference carries the
\* position of the value it stands for.
C13_TablePositions ==
    /\ (pc = "visit") =>
          /\ Len(table.ents) <= Len(PreOrder)
          /\ \A i \in 1..Len(table.ents) :
                /\ IsTagged(heap[PreOrder[i]])
                /\ GetProp(heap[PreOrder[i]], Refcode) = Num(i - 1)
          /\ \A x \in Ids : IsTagged(heap[x]) =>
                \E i \in 1..Len(table.ents) : PreOrder[i] = x
          /\ \A j \in 1..Len(stack) :
                GetProp(heap[stack[j].root], Refcode) = Num(stack[j].ci - 1)
          /\ BackrefsMatch(table.ents, PreOrder)
          /\ stack = <<>> => Len(table.ents) = Len(PreOrder)
    /\ (pc = "idle" /\ out.status = "ok" /\ out.root = Ptr(1)) =>
          /\ Len(out.text.ents) = Len(PreOrder)
          /\ BackrefsMatch([i \in 1..Len(out.text.ents) |-> ParseEntry(out.text.ents[i])],
                           PreOrder)

\* The own keys of the records under x, record by record in first-visit
\* order and in property order within a record: the keys a filter
\* function may be called with.
RECURSIVE LogVisit(_, _, _)
RECURSIVE LogCells(_, _, _, _)
LogVisit(h, x, st) ==
    IF x \in st.seen THEN st
    ELSE LogCells(h, x, 1, [seen |-> st.seen \cup {x}, log |-> st.log])
LogCells(h, x, i, st) ==
    IF i > Len(Slots(h[x])) THEN st
    ELSE LET p == Slots(h[x])[i]
             st1 == IF h[x].kind = "obj" /\ p.k \notin ReservedKeys
                    THEN [st EXCEPT !.log = Append(@, p.k)]
                    ELSE st
         IN IF p.v.t = "ptr"
            THEN LogCells(h, x, i + 1, LogVisit(h, p.v.n, st1))
            ELSE LogCells(h, x, i + 1, st1)
OwnKeyLog == LogVisit(heap, 1, [seen |-> {}, log |-> <<>>]).log
RECURSIVE IsSubSeq(_, _)
IsSubSeq(a, b) ==
    IF a = <<>> THEN TRUE
    ELSE IF b = <<>> THEN FALSE
    ELSE IF Head(a) = Head(b) THEN IsSubSeq(Tail(a), Tail(b))
    ELSE IsSubSeq(a, Tail(b))

\* C14: scope of the filter function.  With a compound root it is called
\* only with own keys of the records of the graph, in property order;
\* with an atom root it is not called, and stringify returns the text of
\* the atom's encoding whatever filter was passed.
C14_FilterScope ==
    /\ (out.root = Ptr(1) /\ out.status \in {"pending", "ok", "error"}) =>
          IsSubSeq(flog, OwnKeyLog)
    /\ (Ended /\ IsAtom(out.root) /\ ~IsFunction(out.root)) =>
          /\ flog = <<>>
          /\ out.status = "ok"
          /\ out.text = JsonStringifyRoot(HandleAtom(out.root).val, "none").text

\* C15: repeatability.  After a stringify of the root has returned a
\* text, a stringify of the same objects as they are now, with the same
\* filter on the same instance, returns the same text: the markers the
\* first call left (nulled, or none with cleanup on) change nothing.
C15_Repeatable ==
    (pc = "idle" /\ out.status = "ok" /\ out.root = Ptr(1)) =>
        LET again == StringifyAll(heap, out.rep, opt.revive, opt.cleanup) IN
        /\ again.err = ""
        /\ again.text = out.text
        /\ again.heap = heap
\* a shared object with nulled markers left by the first call
C15_Witness ==
    /\ pc = "idle"
    /\ out.status = "ok"
    /\ out.clean
    /\ ~opt.cleanup
    /\ GetProp(heap[1], Refcode) = Null
    /\ GetProp(heap[2], Refcode) = Null
    /\ heap[1].elems = <<Ptr(2), Ptr(2)>>
    /\ out.text.ents[1].elems = <<BackrefCell(1), BackrefCell(1)>>
    /\ StringifyAll(heap, out.rep, opt.revive, opt.cleanup).text = out.text

====
